---- MODULE Spec2Model ----
(***************************************************************************)
(* Model of src/passbolt.py: the PassboltAPI client.                       *)
(*                                                                         *)
(* Spec      : one client instance, from the point in __init__ where the   *)
(*             fields are set (line 53) through login() and the user,      *)
(*             group, resource and secret operations.  The server and the  *)
(*             PGP engine are the environment: every response is drawn     *)
(*             from a small set.                                           *)
(* LifeSpec  : the life cycle of several instances and of their gnupghome  *)
(*             directories (__init__ lines 23-55 and __del__).             *)
(*                                                                         *)
(* Text (str) values that the code slices, unquotes or hands to gpg are    *)
(* sequences of characters; a character is a tuple <<"c", x>>, and the     *)
(* base64 payload of an armored PGP message is the single character        *)
(* <<"blob", recipient fingerprint, plaintext, randomness>>.  Plaintexts,  *)
(* ids and fingerprints are atomic strings.                                *)
(***************************************************************************)
EXTENDS Integers, Sequences, FiniteSets, TLC

\* ---------------------------------------------------------------- bounds
MaxSecrets == 2      \* secrets in one dry-run response
MaxListLen == 2      \* entities in one listing response
MaxInstances == 2    \* client instances of LifeSpec

\* ---------------------------------------------------------------- values
None     == "None"                     \* Python None, for atomic fields
NoneText == << <<"None">> >>           \* Python None, for text fields
NoneRec  == [none |-> TRUE]            \* Python None, for object fields

C(x) == <<"c", x>>
T(s) == [i \in DOMAIN s |-> C(s[i])]

OwnKey    == "kOwn"                    \* fingerprint of config private_key
UserKeys  == {"kU1"}
Rand      == {"r1", "r2"}              \* session-key randomness of gpg
UserIds   == {"u1", "u2"}
GroupIds  == {"g1", "g2"}
ResourceIds == {"res1", "res2"}
Emails    == {"a@x", "b@x"}
GroupNames == {"dev", "ops"}
Statuses  == {200, 403}

Blob(key, pt, r) == <<"blob", key, pt, r>>
IsBlob(ch) == Len(ch) = 4 /\ ch[1] = "blob"

\* "-----BEGIN PGP MESSAGE----- <payload> -----END PGP MESSAGE-----"
Armor(b) == <<C("B"), C(" "), b, C(" "), C("E")>>
IsArmored(m) ==
    /\ Len(m) = 5
    /\ m[1] = C("B") /\ m[2] = C(" ") /\ m[4] = C(" ") /\ m[5] = C("E")
    /\ IsBlob(m[3])

\* ------------------------------------------------ urllib.parse.unquote
\* The escapes that occur in the header alphabet of this model.
HexPairs == { <<"2", "0">>, <<"2", "B">>, <<"5", "C">>, <<"2", "5">> }
HexChar(p) ==
    CASE p = <<"2", "0">> -> " "
      [] p = <<"2", "B">> -> "+"
      [] p = <<"5", "C">> -> "\\"
      [] p = <<"2", "5">> -> "%"

RECURSIVE unquote(_)
unquote(s) ==
    IF s = <<>> THEN <<>>
    ELSE IF /\ Head(s) = C("%")
            /\ Len(s) >= 3
            /\ Len(s[2]) = 2 /\ Len(s[3]) = 2
            /\ <<s[2][2], s[3][2]>> \in HexPairs
         THEN <<C(HexChar(<<s[2][2], s[3][2]>>))>> \o unquote(SubSeq(s, 4, Len(s)))
         ELSE <<Head(s)>> \o unquote(Tail(s))

\* str.replace("\\+", " "): leftmost, non-overlapping
RECURSIVE replace_escaped_plus(_)
replace_escaped_plus(s) ==
    IF s = <<>> THEN <<>>
    ELSE IF Len(s) >= 2 /\ s[1] = C("\\") /\ s[2] = C("+")
         THEN <<C(" ")>> \o replace_escaped_plus(SubSeq(s, 3, Len(s)))
         ELSE <<Head(s)>> \o replace_escaped_plus(Tail(s))

\* token[10:-8]
SliceToken(s) == SubSeq(s, 11, Len(s) - 8)

\* ------------------------------------------- server responses (inputs)
\* x-gpgauth-user-auth-token as the server may send it
\* ("B\+<payload>%5C+E": a space is sent as \+, the backslash quoted or not)
HdrEscaped(b) == <<C("B"), C("\\"), C("+"), b, C("%"), C("5"), C("C"), C("+"), C("E")>>
AuthHeaders ==
    { HdrEscaped(Blob(OwnKey, "n1", "r1")), NoneText }

CookiePrefix == T(<<"c", "s", "r", "f", "T", "o", "k", "e", "n", "=">>)
CookieSuffix == T(<<";", " ", "p", "a", "t", "h", "=", "/">>)
Cookie(tok)  == CookiePrefix \o tok \o CookieSuffix
SetCookies   == { Cookie(T(<<"a", "b">>)), NoneText }

\* ------------------------------------------------------- configuration
ConfigKeys == {"gpgbinary", "base_url", "private_key", "passphrase"}
\* a mapping of one source: the value of a key names the source it is from
Mapping(source, keys) == [k \in keys |-> <<source, k>>]
Mappings(source) == { Mapping(source, keys) : keys \in SUBSET ConfigKeys }
NoFile == [exists |-> FALSE, json |-> Mapping("file", {})]
ConfigFiles == {NoFile} \cup { [exists |-> TRUE, json |-> m] : m \in Mappings("file") }
Hosts == [file : ConfigFiles, environ : Mappings("env")]

\* ---------------------------------------------------------------- state
VARIABLES
    pc,             \* position of the instance: the step of login(), "ready",
                    \* "returned" (an operation has just run), "aborted"
    passphrase_ok,  \* config["passphrase"] unlocks config["private_key"]
    FINGERPRINT,
    authenticated, token, USER_ID, pgp_message, nonce,
    headers,        \* session.headers, the entries the code sets
    keyring,        \* fingerprints of the public keys in gnupghome
    hs,             \* exchanges of login(): <<[req, resp], ...>>
    op,             \* the operation last run after login: [name, args, reqs, ret, ...]
    inst, fs,       \* LifeSpec: the instances and the directories that exist
    config,         \* self.config
    host            \* the config file and os.environ: [file, environ]

vars == <<pc, passphrase_ok, FINGERPRINT, authenticated, token, USER_ID,
          pgp_message, nonce, headers, keyring, hs, op, inst, fs, config, host>>

fields == <<passphrase_ok, FINGERPRINT, authenticated, token, USER_ID,
            pgp_message, nonce, headers, keyring>>
lifevars == <<inst, fs>>
cfgvars == <<config, host>>

NoHeaders == [n \in {} |-> NoneText]
NoOp == [name |-> "none", args |-> <<>>, trace |-> <<>>, ret |-> None]

Request(method, url, body) ==
    [method |-> method, url |-> url, body |-> body, headers |-> headers]

\* ------------------------------------------------------------ PGP engine
\* decrypt (lines 98-100): gpg.decrypt never raises; a failed decryption is a
\* result whose str() is empty.  None is read as an empty stream.
decrypt(message) ==
    IF /\ message # NoneText
       /\ IsArmored(message)
       /\ message[3][2] = FINGERPRINT
       /\ passphrase_ok
    THEN [ok |-> TRUE,  data |-> message[3][3]]
    ELSE [ok |-> FALSE, data |-> ""]

Str(result) == result.data

\* encrypt (lines 102-107): import public_key["armored_key"], then encrypt to
\* public_key["fingerprint"] with always_trust.  The keyring after the import:
keyring_after_import(ring, public_key) ==
    IF public_key.armored_key \in UserKeys \cup {OwnKey}
    THEN ring \cup {public_key.armored_key}
    ELSE ring
\* gpg.encrypt never raises; with no usable recipient key the result is empty.
encrypt(message, public_key, ring, r) ==
    IF public_key.fingerprint \in keyring_after_import(ring, public_key)
    THEN [ok |-> TRUE,  data |-> Armor(Blob(public_key.fingerprint, message, r))]
    ELSE [ok |-> FALSE, data |-> <<>>]

\* ------------------------------------------------------------- handshake
LoginUrl == <<"auth", "login.json">>
MeUrl    == <<"users", "me.json">>
RootUrl  == <<"">>

\* stage1 (lines 83-96): the value it returns for a response it can read
stage1_value(code, auth_token) ==
    IF code = 200
    THEN replace_escaped_plus(unquote(auth_token))
    ELSE NoneText

\* login line 140
stage1 ==
    /\ pc = "stage1"
    /\ \E code \in Statuses, auth_token \in AuthHeaders :
         LET req  == Request("POST", LoginUrl, [keyid |-> FINGERPRINT])
             resp == [code |-> code, auth_token |-> auth_token]
         IN  /\ hs' = Append(hs, [req |-> req, resp |-> resp])
             /\ IF code = 200 /\ auth_token = NoneText
                THEN \* unquote(None) raises TypeError: __init__ does not return
                     /\ pc' = "aborted"
                     /\ UNCHANGED pgp_message
                ELSE /\ pc' = "decrypt"
                     /\ pgp_message' = stage1_value(code, auth_token)
    /\ UNCHANGED <<passphrase_ok, FINGERPRINT, authenticated, token, USER_ID,
                   nonce, headers, keyring, op, lifevars, cfgvars>>

\* login line 141
login_decrypt ==
    /\ pc = "decrypt"
    /\ nonce' = decrypt(pgp_message)
    /\ pc' = "stage2"
    /\ UNCHANGED <<passphrase_ok, FINGERPRINT, authenticated, token, USER_ID,
                   pgp_message, headers, keyring, hs, op, lifevars, cfgvars>>

\* stage2 (lines 109-123): its return value
stage2_value(code) == code = 200

stage2_retry ==
    /\ pc = "stage2"
    /\ \E code \in Statuses :
         LET req  == Request("POST", LoginUrl,
                             [keyid |-> FINGERPRINT, user_token_result |-> Str(nonce)])
             resp == [code |-> code]
         IN  /\ hs' = Append(hs, [req |-> req, resp |-> resp])
             /\ authenticated' = stage2_value(code)
             /\ pc' = IF stage2_value(code) THEN "get_cookie" ELSE "stage1"
    /\ UNCHANGED <<passphrase_ok, FINGERPRINT, token, USER_ID, pgp_message,
                   nonce, headers, keyring, op, lifevars, cfgvars>>

\* login line 142
stage2 ==
    /\ pc = "stage2"
    /\ \E code \in Statuses :
         LET req  == Request("POST", LoginUrl,
                             [keyid |-> FINGERPRINT, user_token_result |-> Str(nonce)])
             resp == [code |-> code]
         IN  /\ hs' = Append(hs, [req |-> req, resp |-> resp])
             /\ authenticated' = stage2_value(code)
    /\ pc' = "get_cookie"
    /\ UNCHANGED <<passphrase_ok, FINGERPRINT, token, USER_ID, pgp_message,
                   nonce, headers, keyring, op, lifevars, cfgvars>>

csrf_headers_old_token(tok) == [n \in {"X-CSRF-Token"} |-> NoneText]

\* get_cookie lines 130-131
cookie_token(set_cookie) == SliceToken(set_cookie)
csrf_headers(tok) == [n \in {"X-CSRF-Token"} |-> tok]

\* login line 143, get_cookie (lines 125-131)
get_cookie ==
    /\ pc = "get_cookie"
    /\ \E set_cookie \in SetCookies, id \in UserIds :
         LET req  == Request("GET", MeUrl, None)
             resp == [set_cookie |-> set_cookie, id |-> id]
         IN  /\ hs' = Append(hs, [req |-> req, resp |-> resp])
             /\ USER_ID' = id
             /\ IF set_cookie = NoneText
                THEN \* None[10:-8] raises TypeError: __init__ does not return
                     /\ pc' = "aborted"
                     /\ UNCHANGED <<token, headers>>
                ELSE /\ pc' = "check_login"
                     /\ token' = cookie_token(set_cookie)
                     /\ headers' = csrf_headers(cookie_token(set_cookie))
    /\ UNCHANGED <<passphrase_ok, FINGERPRINT, authenticated, pgp_message,
                   nonce, keyring, op, lifevars, cfgvars>>

check_login_revoking ==
    /\ pc = "check_login"
    /\ \E status \in Statuses :
         /\ hs' = Append(hs, [req  |-> Request("GET", RootUrl, None),
                              resp |-> [status_code |-> status]])
         /\ authenticated' = (authenticated /\ status = 200)
    /\ pc' = "ready"
    /\ UNCHANGED <<passphrase_ok, FINGERPRINT, token, USER_ID, pgp_message,
                   nonce, headers, keyring, op, lifevars, cfgvars>>

\* login line 144, check_login (lines 133-137)
check_login ==
    /\ pc = "check_login"
    /\ \E status \in Statuses :
         hs' = Append(hs, [req  |-> Request("GET", RootUrl, None),
                           resp |-> [status_code |-> status]])
    /\ pc' = "ready"
    /\ UNCHANGED <<fields, op, lifevars, cfgvars>>

\* ------------------------------------------------- listings (inputs)
RECURSIVE SeqsUpTo(_, _)
SeqsUpTo(S, n) ==
    IF n = 0 THEN {<<>>}
    ELSE LET shorter == SeqsUpTo(S, n - 1)
         IN  shorter \cup {Append(q, x) : q \in {t \in shorter : Len(t) = n - 1}, x \in S}

Member(id, group_id) == [id |-> id, group_id |-> group_id]
User(id, username, groups_users) ==
    [id |-> id, username |-> username, groups_users |-> groups_users]
Users ==
    { User("u1", "a@x", <<>>),
      User("u1", "b@x", <<Member("m1", "g1")>>),
      User("u2", "a@x", <<Member("m2", "g2"), Member("m3", "g1")>>),
      User("u2", "b@x", <<Member("m4", "g1"), Member("m5", "g1")>>) }
Groups == [id : GroupIds, name : GroupNames]
UserLists  == SeqsUpTo(Users, MaxListLen)
GroupLists == SeqsUpTo(Groups, MaxListLen)

GpgKeys == {[armored_key |-> k, fingerprint |-> k] : k \in UserKeys}
             \cup {[armored_key |-> "bad", fingerprint |-> "kU1"]}

SecretData == { Armor(Blob(OwnKey, "p1", "r1")), Armor(Blob("kU2", "p2", "r1")) }
Secret(resource_id, data) == [resource_id |-> resource_id, data |-> data]
\* one element of body["dry-run"]["Secrets"]: its "Secret" list, never empty
SecretEntries ==
    { <<Secret("res1", Armor(Blob(OwnKey, "p1", "r1")))>>,
      <<Secret("res2", Armor(Blob("kU2", "p2", "r1")))>>,
      <<Secret("res2", Armor(Blob(OwnKey, "p1", "r1"))),
        Secret("res1", Armor(Blob(OwnKey, "p2", "r1")))>> }
SecretLists   == SeqsUpTo(SecretEntries, MaxSecrets)

UsersUrl     == <<"users.json">>
GroupsUrl    == <<"groups.json">>
ResourcesUrl == <<"resources.json">>
UserUrl(id)        == <<"users", id>>
GroupUrl(id)       == <<"groups", id>>
DryRunUrl(id)      == <<"groups", id, "dry-run.json">>
ResourceUrl(id)    == <<"resources", id>>
SecretUrl(id)      == <<"secrets", "resource", id>>

\* one HTTP exchange of an operation
Http(method, url, body, resp) ==
    [kind |-> "request", req |-> Request(method, url, body), resp |-> resp]
Called(fn, arg) == [kind |-> fn, arg |-> arg]

Requests(trace) == SelectSeq(trace, LAMBDA e : e.kind = "request")

\* ------------------------------------------------------------- listings
\* get_users (lines 146-149)
get_users ==
    /\ pc = "ready"
    /\ \E users \in UserLists :
         op' = [name |-> "get_users", args |-> <<>>,
                trace |-> <<Http("GET", UsersUrl, None, [body |-> users])>>,
                ret |-> users]
    /\ pc' = "returned"
    /\ UNCHANGED <<fields, hs, lifevars, cfgvars>>

\* get_groups (lines 151-154)
get_groups ==
    /\ pc = "ready"
    /\ \E groups \in GroupLists :
         op' = [name |-> "get_groups", args |-> <<>>,
                trace |-> <<Http("GET", GroupsUrl, None, [body |-> groups])>>,
                ret |-> groups]
    /\ pc' = "returned"
    /\ UNCHANGED <<fields, hs, lifevars, cfgvars>>

\* the for loops of lines 158-160, 164-166, 170-172, 226-228: the first element
\* that matches is returned, and None when the loop ends
RECURSIVE user_by_email_last(_, _)
user_by_email_last(users, email) ==
    IF users = <<>> THEN NoneRec
    ELSE LET later == user_by_email_last(Tail(users), email)
         IN  IF later # NoneRec THEN later
             ELSE IF Head(users).username = email THEN Head(users) ELSE NoneRec

RECURSIVE user_by_email(_, _)
user_by_email(users, email) ==
    IF users = <<>> THEN NoneRec
    ELSE IF Head(users).username = email THEN Head(users)
         ELSE user_by_email(Tail(users), email)

RECURSIVE user_by_id(_, _)
user_by_id(users, id) ==
    IF users = <<>> THEN NoneRec
    ELSE IF Head(users).id = id THEN Head(users)
         ELSE user_by_id(Tail(users), id)

RECURSIVE group_by_name(_, _)
group_by_name(groups, group_name) ==
    IF groups = <<>> THEN NoneRec
    ELSE IF Head(groups).name = group_name THEN Head(groups)
         ELSE group_by_name(Tail(groups), group_name)

RECURSIVE group_by_id(_, _)
group_by_id(groups, group_id) ==
    IF groups = <<>> THEN NoneRec
    ELSE IF Head(groups).id = group_id THEN Head(groups)
         ELSE group_by_id(Tail(groups), group_id)

\* get_user_by_email (lines 156-160)
get_user_by_email ==
    /\ pc = "ready"
    /\ \E email \in Emails, users \in UserLists :
         op' = [name |-> "get_user_by_email", args |-> <<email>>,
                trace |-> <<Http("GET", UsersUrl, None, [body |-> users])>>,
                ret |-> user_by_email(users, email)]
    /\ pc' = "returned"
    /\ UNCHANGED <<fields, hs, lifevars, cfgvars>>

\* get_user_by_id (lines 162-166)
get_user_by_id ==
    /\ pc = "ready"
    /\ \E id \in UserIds, users \in UserLists :
         op' = [name |-> "get_user_by_id", args |-> <<id>>,
                trace |-> <<Http("GET", UsersUrl, None, [body |-> users])>>,
                ret |-> user_by_id(users, id)]
    /\ pc' = "returned"
    /\ UNCHANGED <<fields, hs, lifevars, cfgvars>>

\* get_group_by_name (lines 168-172)
get_group_by_name ==
    /\ pc = "ready"
    /\ \E group_name \in GroupNames, groups \in GroupLists :
         op' = [name |-> "get_group_by_name", args |-> <<group_name>>,
                trace |-> <<Http("GET", GroupsUrl, None, [body |-> groups])>>,
                ret |-> group_by_name(groups, group_name)]
    /\ pc' = "returned"
    /\ UNCHANGED <<fields, hs, lifevars, cfgvars>>

\* get_group_by_id (lines 224-228)
get_group_by_id ==
    /\ pc = "ready"
    /\ \E group_id \in GroupIds, groups \in GroupLists :
         op' = [name |-> "get_group_by_id", args |-> <<group_id>>,
                trace |-> <<Http("GET", GroupsUrl, None, [body |-> groups])>>,
                ret |-> group_by_id(groups, group_id)]
    /\ pc' = "returned"
    /\ UNCHANGED <<fields, hs, lifevars, cfgvars>>

\* ----------------------------------------------------- group operations
Reply_raise_for_status(url, status_code) ==
    IF status_code = 200
    THEN [url |-> url, status_code |-> status_code]
    ELSE [url |-> url, status_code |-> status_code, raised |-> "HTTPStatusError"]

\* the response object an operation returns (lines 182, 222, 254)
Reply(url, status_code) == [url |-> url, status_code |-> status_code]

\* create_group (lines 174-182)
create_group ==
    /\ pc = "ready"
    /\ \E group_name \in GroupNames, status \in Statuses :
         LET post == [name |-> group_name,
                      groups_users |-> <<[user_id |-> USER_ID, is_admin |-> TRUE]>>]
         IN  op' = [name |-> "create_group", args |-> <<group_name>>,
                    trace |-> <<Http("POST", GroupsUrl, post, [status_code |-> status])>>,
                    ret |-> Reply(GroupsUrl, status)]
    /\ pc' = "returned"
    /\ UNCHANGED <<fields, hs, lifevars, cfgvars>>

dry_run_ok_any_answer(status_code) == status_code >= 200

\* lines 191 and 245: the test that lets the flow go on after the dry-run
dry_run_ok(status_code) == status_code = 200

secrets_list_first_secret(secrets, user_id, user_key, ring, rs) ==
    [i \in 1..Len(secrets) |->
        [resource_id |-> secrets[i][1].resource_id,
         user_id     |-> user_id,
         data        |-> Str(encrypt(Str(decrypt(secrets[1][1].data)),
                                     user_key, ring, rs[i]))]]

\* lines 195-206: the secrets list built from the dry-run's secrets; rs[i] is
\* the randomness gpg draws for the i-th encryption
secrets_list(secrets, user_id, user_key, ring, rs) ==
    [i \in 1..Len(secrets) |->
        [resource_id |-> secrets[i][1].resource_id,
         user_id     |-> user_id,
         data        |-> Str(encrypt(Str(decrypt(secrets[i][1].data)),
                                     user_key, ring, rs[i]))]]

\* the decrypt and encrypt calls of the loop, in the order they are made
crypto_calls(secrets, user_key) ==
    [i \in 1..(2 * Len(secrets)) |->
        LET d == secrets[(i + 1) \div 2][1].data
        IN  IF i % 2 = 1
            THEN Called("decrypt", d)
            ELSE Called("encrypt", <<Str(decrypt(d)), user_key>>)]

\* lines 185-188: the body of the dry-run PUT
membership_post(group_id, user_id, admin) ==
    [id |-> group_id,
     groups_users |-> <<[user_id |-> user_id, is_admin |-> admin]>>]

commit_post_member_only(group_id, user_id, admin, list) ==
    [id |-> group_id,
     groups_users |-> <<[user_id |-> user_id, is_admin |-> FALSE]>>,
     secrets |-> list]

\* lines 208-212: the body of the commit PUT
commit_post(group_id, user_id, admin, list) ==
    [id |-> group_id,
     groups_users |-> <<[user_id |-> user_id, is_admin |-> admin]>>,
     secrets |-> list]

put_events_key_per_secret(dry, getkey, calls, commit) ==
    <<dry>>
      \o [i \in 1..(3 * (Len(calls) \div 2)) |->
             IF i % 3 = 1 THEN getkey
             ELSE calls[2 * ((i - 1) \div 3) + ((i - 1) % 3)]]
      \o <<commit>>

\* lines 190-215 after a 200 dry-run: the requests and the gpg calls in the
\* order the statements make them
put_events(dry, getkey, calls, commit) ==
    <<dry, getkey>> \o calls \o <<commit>>

\* put_user_on_group (lines 184-222)
put_user_on_group ==
    /\ pc = "ready"
    /\ \E group_id \in GroupIds, user_id \in UserIds, admin \in BOOLEAN,
          status \in Statuses :
       \E secrets \in (IF status = 200 THEN SecretLists ELSE {<<>>}) :
         LET post == membership_post(group_id, user_id, admin)
             dry  == Http("PUT", DryRunUrl(group_id), post,
                          [status_code |-> status, secrets |-> secrets])
         IN  IF dry_run_ok(status)
             THEN \E user_key \in GpgKeys, rs \in [1..Len(secrets) -> Rand],
                     commit_status \in Statuses :
                    LET list   == secrets_list(secrets, user_id, user_key, keyring, rs)
                        post2  == commit_post(group_id, user_id, admin, list)
                        getkey == Http("GET", UserUrl(user_id), None,
                                       [gpgkey |-> user_key])
                        commit == Http("PUT", GroupUrl(group_id), post2,
                                       [status_code |-> commit_status])
                    IN  /\ op' = [name |-> "put_user_on_group",
                                  args |-> <<group_id, user_id, admin>>,
                                  trace |-> put_events(dry, getkey,
                                                       crypto_calls(secrets, user_key),
                                                       commit),
                                  ret |-> Reply(GroupUrl(group_id), commit_status),
                                  ring |-> keyring]
                        /\ keyring' = IF secrets = <<>> THEN keyring
                                      ELSE keyring_after_import(keyring, user_key)
             ELSE /\ op' = [name |-> "put_user_on_group",
                            args |-> <<group_id, user_id, admin>>,
                            trace |-> <<dry>>,
                            ret |-> Reply(DryRunUrl(group_id), status),
                            ring |-> keyring]
                  /\ UNCHANGED keyring
    /\ pc' = "returned"
    /\ UNCHANGED <<passphrase_ok, FINGERPRINT, authenticated, token, USER_ID,
                   pgp_message, nonce, headers, hs, lifevars, cfgvars>>

\* the for loop of lines 232-234
RECURSIVE membership_id(_, _)
membership_id(groups_users, group_id) ==
    IF groups_users = <<>> THEN None
    ELSE IF Head(groups_users).group_id = group_id THEN Head(groups_users).id
         ELSE membership_id(Tail(groups_users), group_id)

\* get_group_user_id (lines 230-234); user["groups_users"] raises TypeError
\* when get_user_by_id returned None
get_group_user_id ==
    /\ pc = "ready"
    /\ \E group_id \in GroupIds, user_id \in UserIds, users \in UserLists :
         LET user == user_by_id(users, user_id)
         IN  op' = [name |-> "get_group_user_id", args |-> <<group_id, user_id>>,
                    trace |-> <<Http("GET", UsersUrl, None, [body |-> users])>>,
                    raised |-> (user = NoneRec),
                    ret |-> IF user = NoneRec THEN None
                            ELSE membership_id(user.groups_users, group_id)]
    /\ pc' = "returned"
    /\ UNCHANGED <<fields, hs, lifevars, cfgvars>>

\* update_user_to_group_admin (lines 236-254)
update_user_to_group_admin ==
    /\ pc = "ready"
    /\ \E group_id \in GroupIds, user_id \in UserIds, users \in UserLists :
         LET user    == user_by_id(users, user_id)
             listing == Http("GET", UsersUrl, None, [body |-> users])
         IN  IF user = NoneRec
             THEN op' = [name |-> "update_user_to_group_admin",
                         args |-> <<group_id, user_id>>,
                         trace |-> <<listing>>, raised |-> TRUE, ret |-> None]
             ELSE \E status \in Statuses :
                    LET group_user_id == membership_id(user.groups_users, group_id)
                        post == [id |-> group_id,
                                 groups_users |->
                                     <<[id |-> group_user_id, is_admin |-> TRUE]>>]
                        dry  == Http("PUT", DryRunUrl(group_id), post,
                                     [status_code |-> status])
                    IN  IF dry_run_ok(status)
                        THEN \E commit_status \in Statuses :
                               op' = [name |-> "update_user_to_group_admin",
                                      args |-> <<group_id, user_id>>,
                                      trace |-> <<listing, dry,
                                                  Http("PUT", GroupUrl(group_id), post,
                                                       [status_code |-> commit_status])>>,
                                      raised |-> FALSE,
                                      ret |-> Reply(GroupUrl(group_id), commit_status)]
                        ELSE op' = [name |-> "update_user_to_group_admin",
                                    args |-> <<group_id, user_id>>,
                                    trace |-> <<listing, dry>>,
                                    raised |-> FALSE,
                                    ret |-> Reply(DryRunUrl(group_id), status)]
    /\ pc' = "returned"
    /\ UNCHANGED <<fields, hs, lifevars, cfgvars>>

\* ------------------------------------------- users, resources, secrets
\* get_user_public_key (lines 256-261)
get_user_public_key ==
    /\ pc = "ready"
    /\ \E user_id \in UserIds, user_key \in GpgKeys :
         op' = [name |-> "get_user_public_key", args |-> <<user_id>>,
                trace |-> <<Http("GET", UserUrl(user_id), None, [gpgkey |-> user_key])>>,
                ret |-> user_key]
    /\ pc' = "returned"
    /\ UNCHANGED <<fields, hs, lifevars, cfgvars>>

get_resource_secret_storing ==
    /\ pc = "ready"
    /\ \E resourceId \in ResourceIds, data \in SecretData :
         /\ op' = [name |-> "get_resource_secret", args |-> <<resourceId>>,
                   trace |-> <<Http("GET", SecretUrl(resourceId), None, [data |-> data])>>,
                   ret |-> data]
         /\ nonce' = decrypt(data)
    /\ pc' = "returned"
    /\ UNCHANGED <<passphrase_ok, FINGERPRINT, authenticated, token, USER_ID,
                   pgp_message, headers, keyring, hs, lifevars, cfgvars>>

\* get_resource_secret (lines 263-268)
get_resource_secret ==
    /\ pc = "ready"
    /\ \E resourceId \in ResourceIds, data \in SecretData :
         op' = [name |-> "get_resource_secret", args |-> <<resourceId>>,
                trace |-> <<Http("GET", SecretUrl(resourceId), None, [data |-> data])>>,
                ret |-> data]
    /\ pc' = "returned"
    /\ UNCHANGED <<fields, hs, lifevars, cfgvars>>

\* get_resources (lines 270-275)
get_resources ==
    /\ pc = "ready"
    /\ \E resources \in SeqsUpTo([id : ResourceIds], MaxListLen) :
         op' = [name |-> "get_resources", args |-> <<>>,
                trace |-> <<Http("GET", ResourcesUrl, None, [body |-> resources])>>,
                ret |-> resources]
    /\ pc' = "returned"
    /\ UNCHANGED <<fields, hs, lifevars, cfgvars>>

\* get_resource_per_uuid (lines 277-282)
get_resource_per_uuid ==
    /\ pc = "ready"
    /\ \E uuid \in ResourceIds :
         op' = [name |-> "get_resource_per_uuid", args |-> <<uuid>>,
                trace |-> <<Http("GET", ResourceUrl(uuid), None, [body |-> [id |-> uuid]])>>,
                ret |-> [id |-> uuid]]
    /\ pc' = "returned"
    /\ UNCHANGED <<fields, hs, lifevars, cfgvars>>

\* the return statement of an operation: the caller has the result, and the
\* call's arguments, exchanges and locals are gone
op_return ==
    /\ pc = "returned"
    /\ pc' = "ready"
    /\ op' = NoOp
    /\ UNCHANGED <<fields, hs, lifevars, cfgvars>>

\* --------------------------------------------------------- specification
\* __init__ lines 35-53: the key is imported and the fields are set
Init ==
    /\ pc = "stage1"
    /\ passphrase_ok \in BOOLEAN
    /\ FINGERPRINT = OwnKey
    /\ authenticated = FALSE
    /\ token = NoneText
    /\ USER_ID = None
    /\ pgp_message = NoneText
    /\ nonce = NoneRec
    /\ headers = NoHeaders
    /\ keyring = {OwnKey}
    /\ hs = <<>>
    /\ op = NoOp
    /\ inst = <<>>
    /\ fs = {}
    /\ config = Mapping("dict", ConfigKeys)
    /\ host = [file |-> NoFile, environ |-> Mapping("env", {})]

Next ==
    \/ stage1
    \/ login_decrypt
    \/ stage2
    \/ get_cookie
    \/ check_login
    \/ get_users
    \/ get_groups
    \/ get_user_by_email
    \/ get_user_by_id
    \/ get_group_by_name
    \/ get_group_by_id
    \/ create_group
    \/ put_user_on_group
    \/ get_group_user_id
    \/ update_user_to_group_admin
    \/ get_user_public_key
    \/ get_resource_secret
    \/ get_resources
    \/ get_resource_per_uuid
    \/ op_return

Spec == Init /\ [][Next]_vars

\* ------------------------------------------------- reading the history
LoginFinished == pc \in {"ready", "returned"}

Stage1Posts ==
    { i \in DOMAIN hs : /\ hs[i].req.method = "POST"
                        /\ hs[i].req.url = LoginUrl
                        /\ "user_token_result" \notin DOMAIN hs[i].req.body }
Stage2Posts ==
    { i \in DOMAIN hs : /\ hs[i].req.method = "POST"
                        /\ hs[i].req.url = LoginUrl
                        /\ "user_token_result" \in DOMAIN hs[i].req.body }
MeGets == { i \in DOMAIN hs : hs[i].req.method = "GET" /\ hs[i].req.url = MeUrl }

Stage1Failed  == \E i \in Stage1Posts : hs[i].resp.code # 200
DecryptFailed == nonce # NoneRec /\ ~nonce.ok
Stage2Failed  == \E i \in Stage2Posts : hs[i].resp.code # 200

HasCsrf(h, tok) == "X-CSRF-Token" \in DOMAIN h /\ h["X-CSRF-Token"] = tok

\* --------------------------------------------------------------- claims
\* C1: when login() has finished, authenticated is True if and only if the
\* stage-1 envelope code was 200, the challenge decrypted, and the stage-2
\* envelope code was 200.
C1_AuthenticatedIffAllStagesSucceeded ==
    LoginFinished =>
        (authenticated <=> /\ ~Stage1Failed
                           /\ ~DecryptFailed
                           /\ ~Stage2Failed)

\* C2: when the stage-1 envelope code is not 200, or the challenge does not
\* decrypt, no stage-2 POST to the login endpoint is issued.
C2_NoStage2AfterEarlyFailure ==
    (Stage1Failed \/ DecryptFailed) => Stage2Posts = {}

\* C3: when the stage-2 envelope code is not 200, GET /users/me.json is not
\* issued, token and USER_ID stay None and no X-CSRF-Token header is installed.
C3_NoSessionAfterStage2Failure ==
    Stage2Failed =>
        /\ MeGets = {}
        /\ token = NoneText
        /\ USER_ID = None
        /\ "X-CSRF-Token" \notin DOMAIN headers

\* C4: while authenticated is False, no user, group, resource or secret
\* operation sends an HTTP request.
C4_NoRequestWhileUnauthenticated ==
    ~authenticated => Requests(op.trace) = <<>>

\* C5: in put_user_on_group, when the dry-run PUT answers a status other than
\* 200, nothing is decrypted or encrypted, the target user's key is not
\* fetched, no key is imported, and the commit PUT is not issued.
C5_DryRunFailureAborts ==
    (op.name = "put_user_on_group" /\ op.trace[1].resp.status_code # 200) =>
        /\ op.trace[1].req.url = DryRunUrl(op.args[1])
        /\ \A i \in DOMAIN op.trace :
             /\ op.trace[i].kind \notin {"decrypt", "encrypt"}
             /\ op.trace[i].kind = "request" =>
                  /\ op.trace[i].req.url # UserUrl(op.args[2])
                  /\ op.trace[i].req.url # GroupUrl(op.args[1])
        /\ keyring = op.ring

C5_Witness ==
    /\ op.name = "put_user_on_group"
    /\ op.trace[1].req.method = "PUT"
    /\ op.trace[1].resp.status_code = 403

\* C6: after a 200 dry-run, the commit PUT of put_user_on_group carries one
\* secrets entry per dry-run secret, in the same order, each with the
\* resource_id of that secret, the target user_id, and as data the encryption
\* to the fetched key of the target user of the result of decrypting that
\* secret with the client's key.
CommitPuts ==
    { i \in DOMAIN op.trace : /\ op.trace[i].kind = "request"
                              /\ op.trace[i].req.method = "PUT"
                              /\ op.trace[i].req.url = GroupUrl(op.args[1]) }

C6_SecretsListMatchesDryRun ==
    (op.name = "put_user_on_group" /\ op.trace[1].resp.status_code = 200) =>
        /\ CommitPuts # {}
        /\ \A c \in CommitPuts :
             LET sent     == op.trace[c].req.body.secrets
                 secrets  == op.trace[1].resp.secrets
                 user_key == op.trace[2].resp.gpgkey
             IN  /\ Len(sent) = Len(secrets)
                 /\ \A i \in DOMAIN secrets :
                      /\ sent[i].resource_id = Head(secrets[i]).resource_id
                      /\ sent[i].user_id = op.args[2]
                      /\ \E r \in Rand :
                           sent[i].data =
                               Str(encrypt(Str(decrypt(Head(secrets[i]).data)),
                                           user_key, op.ring, r))

\* two secrets with different plaintexts, both re-encrypted to the user's key
C6_Witness ==
    /\ op.name = "put_user_on_group"
    /\ op.trace[1].resp.status_code = 200
    /\ Len(op.trace[1].resp.secrets) = 2
    /\ \E c \in CommitPuts :
         LET sent == op.trace[c].req.body.secrets
         IN  /\ Len(sent) = 2
             /\ sent[1].data = Armor(Blob("kU1", "p1", "r2"))
             /\ sent[2].data = Armor(Blob("kU1", "", "r1"))
             /\ sent[1].resource_id = "res1" /\ sent[2].resource_id = "res2"

\* C7: get_user_by_email, get_user_by_id, get_group_by_name and
\* get_group_by_id return None when no entity of the fetched collection has
\* the requested value in the field, and otherwise the first such entity in
\* list order.
Lookups == {"get_user_by_email", "get_user_by_id", "get_group_by_name", "get_group_by_id"}
Matches(name, entity, key) ==
    CASE name = "get_user_by_email" -> entity.username = key
      [] name = "get_user_by_id"    -> entity.id = key
      [] name = "get_group_by_name" -> entity.name = key
      [] name = "get_group_by_id"   -> entity.id = key

C7_LookupFirstMatchOrNone ==
    op.name \in Lookups =>
        LET list == op.trace[1].resp.body
            hits == { i \in DOMAIN list : Matches(op.name, list[i], op.args[1]) }
        IN  /\ hits = {} => op.ret = NoneRec
            /\ hits # {} =>
                 \E i \in hits : /\ \A j \in hits : i <= j
                                 /\ op.ret = list[i]

\* two different entities match and the first is returned
C7_Witness ==
    /\ op.name = "get_user_by_email"
    /\ LET list == op.trace[1].resp.body
       IN  /\ Len(list) = 2
           /\ list[1].username = op.args[1] /\ list[2].username = op.args[1]
           /\ list[1] # list[2]
           /\ op.ret = list[1]

\* C8: a stage-2 POST carries the fingerprint sent in stage 1 and, as
\* user_token_result, the nonce obtained by decrypting the challenge of the
\* stage-1 response of this login (URL-decoded, escaped plus replaced by a
\* space).
C8_Stage2CarriesDecryptedChallenge ==
    \A i \in Stage2Posts :
        /\ Stage1Posts # {}
        /\ \A j \in Stage1Posts :
             /\ j < i
             /\ hs[i].req.body.keyid = hs[j].req.body.keyid
             /\ hs[j].resp.auth_token # NoneText
             /\ hs[i].req.body.user_token_result =
                    Str(decrypt(replace_escaped_plus(unquote(hs[j].resp.auth_token))))

\* C9: once get_cookie has run, the token is the one cut out of the set-cookie
\* header of the /users/me.json response, it stays that value, and every
\* request sent afterwards carries it as X-CSRF-Token.
C9_CsrfTokenOnEveryLaterRequest ==
    \A i \in MeGets :
        hs[i].resp.set_cookie # NoneText =>
            LET tok == SliceToken(hs[i].resp.set_cookie)
            IN  /\ token = tok
                /\ HasCsrf(headers, tok)
                /\ \A j \in DOMAIN hs : j > i => HasCsrf(hs[j].req.headers, tok)
                /\ \A k \in DOMAIN op.trace :
                     op.trace[k].kind = "request" => HasCsrf(op.trace[k].req.headers, tok)

\* the liveness request and both PUTs of a later put_user_on_group carry it
C9_Witness ==
    /\ op.name = "put_user_on_group"
    /\ Len(Requests(op.trace)) = 3
    /\ token = T(<<"a", "b">>)
    /\ \A k \in DOMAIN op.trace :
         op.trace[k].kind = "request" => HasCsrf(op.trace[k].req.headers, T(<<"a", "b">>))
    /\ Len(hs) = 4 /\ HasCsrf(hs[4].req.headers, T(<<"a", "b">>))

\* ------------------------------------------- life cycle of the instances
Instances == 1..MaxInstances
DirNames  == 1..MaxInstances           \* names tempfile.mkdtemp can draw
NoDir     == 0                         \* the attribute gnupghome is not set

NewInstance == [st |-> "new", gnupghome |-> NoDir, outcome |-> "none"]

SetInst(i, st, home, outcome) ==
    inst' = [inst EXCEPT ![i] = [st |-> st, gnupghome |-> home, outcome |-> outcome]]

\* __init__ lines 23-27: load_config; json.load raises on a malformed file
init_load_config(i) ==
    /\ inst[i].st = "new"
    /\ \E raised \in BOOLEAN :
         IF raised
         THEN SetInst(i, "aborted", NoDir, "raised")
         ELSE SetInst(i, "configured", NoDir, "none")
    /\ UNCHANGED <<pc, fields, hs, op, cfgvars, fs>>

\* tempfile.mkdtemp creates a directory that did not exist
mkdtemp_names(dirs) == DirNames \ dirs

\* __init__ line 29
init_mkdtemp(i) ==
    /\ inst[i].st = "configured"
    /\ \E d \in mkdtemp_names(fs) :
         /\ fs' = fs \cup {d}
         /\ SetInst(i, "has_dir", d, "none")
    /\ UNCHANGED <<pc, fields, hs, op, cfgvars>>

\* __init__ lines 30-37: gnupg.GPG raises when the binary is missing, and
\* fingerprints[0] raises IndexError when private_key is no key
init_import_key(i) ==
    /\ inst[i].st = "has_dir"
    /\ \E raised \in BOOLEAN :
         IF raised
         THEN SetInst(i, "aborted", inst[i].gnupghome, "raised")
         ELSE SetInst(i, "key_loaded", inst[i].gnupghome, "none")
    /\ UNCHANGED <<pc, fields, hs, op, cfgvars, fs>>

\* __init__ lines 39-55: login() ends with authenticated True, with
\* authenticated False, or raises (the ends of login in Spec)
init_login(i) ==
    /\ inst[i].st = "key_loaded"
    /\ \E outcome \in {"authenticated", "failed", "raised"} :
         SetInst(i, IF outcome = "raised" THEN "aborted" ELSE "live",
                 inst[i].gnupghome, outcome)
    /\ UNCHANGED <<pc, fields, hs, op, cfgvars, fs>>

\* the last reference to the instance goes away
discard(i) ==
    /\ inst[i].st \in {"live", "aborted"}
    /\ SetInst(i, "discarded", inst[i].gnupghome, inst[i].outcome)
    /\ UNCHANGED <<pc, fields, hs, op, cfgvars, fs>>

rmtree_keeps(dirs, home) == dirs

\* shutil.rmtree(self.gnupghome), line 61
rmtree(dirs, home) == dirs \ {home}

\* __del__ (lines 57-61); without the attribute it raises AttributeError,
\* which the interpreter ignores
del(i) ==
    /\ inst[i].st = "discarded"
    /\ fs' = IF inst[i].gnupghome = NoDir THEN fs ELSE rmtree(fs, inst[i].gnupghome)
    /\ SetInst(i, "finalized", inst[i].gnupghome, inst[i].outcome)
    /\ UNCHANGED <<pc, fields, hs, op, cfgvars>>

LifeInit ==
    /\ pc = "lifecycle"
    /\ passphrase_ok = TRUE
    /\ FINGERPRINT = OwnKey
    /\ authenticated = FALSE
    /\ token = NoneText
    /\ USER_ID = None
    /\ pgp_message = NoneText
    /\ nonce = NoneRec
    /\ headers = NoHeaders
    /\ keyring = {OwnKey}
    /\ hs = <<>>
    /\ op = NoOp
    /\ inst = [i \in Instances |-> NewInstance]
    /\ fs = {}
    /\ config = NoneRec
    /\ host = [file |-> NoFile, environ |-> Mapping("env", {})]

LifeNext ==
    \E i \in Instances :
        \/ init_load_config(i)
        \/ init_mkdtemp(i)
        \/ init_import_key(i)
        \/ init_login(i)
        \/ discard(i)
        \/ del(i)

\* CPython runs __del__ when the reference count of the instance reaches zero
LifeSpec == LifeInit /\ [][LifeNext]_vars /\ \A i \in Instances : WF_vars(del(i))

\* C10: every gnupghome directory created for an instance is deleted once
\* the instance is discarded, whatever the end of its construction; mkdtemp
\* gives each instance a directory that did not exist, and no two instances
\* hold the same existing directory.
HoldsDir(i) ==
    /\ inst[i].gnupghome # NoDir
    /\ inst[i].st \in {"has_dir", "key_loaded", "live", "aborted", "discarded"}

NoSharedKeyring ==
    \A i, j \in Instances :
        (i # j /\ HoldsDir(i) /\ HoldsDir(j)) => inst[i].gnupghome # inst[j].gnupghome

FreshKeyring ==
    \A i \in Instances :
        (inst[i].gnupghome = NoDir /\ inst'[i].gnupghome # NoDir) =>
            /\ inst'[i].gnupghome \notin fs
            /\ inst'[i].gnupghome \in fs'

C10_KeyringDeletedAndNotShared ==
    /\ [](NoSharedKeyring /\ \A i \in Instances : HoldsDir(i) => inst[i].gnupghome \in fs)
    /\ [][FreshKeyring]_vars
    /\ \A i \in Instances :
         (inst[i].st = "discarded" /\ inst[i].gnupghome # NoDir)
             ~> (inst[i].gnupghome \notin fs)

\* an instance whose construction raised after mkdtemp is finalized and its
\* directory is gone, while another instance is live in a directory of its own
C10_Witness ==
    \E i, j \in Instances :
        /\ i # j
        /\ inst[i].st = "finalized" /\ inst[i].outcome = "raised"
        /\ inst[i].gnupghome # NoDir /\ inst[i].gnupghome \notin fs
        /\ inst[j].st = "live" /\ inst[j].outcome = "failed"
        /\ inst[j].gnupghome \in fs

\* ------------------------------------------------------- load_config
\* the second argument of os.environ.get, lines 77-80
Fallback(k) ==
    CASE k = "gpgbinary"   -> <<"default", "gpg">>
      [] k = "base_url"    -> <<"default", "https://undefined">>
      [] k = "private_key" -> <<"default", "undefined">>
      [] k = "passphrase"  -> <<"default", "gpg">>

load_config_file_first(dict_config, file, environ) ==
    IF file.exists THEN file.json
    ELSE IF DOMAIN dict_config # {} THEN dict_config
    ELSE [k \in ConfigKeys |-> IF k \in DOMAIN environ THEN environ[k] ELSE Fallback(k)]

\* lines 70-81: the value self.config gets
load_config_value(dict_config, file, environ) ==
    IF DOMAIN dict_config # {} THEN dict_config
    ELSE IF file.exists THEN file.json
    ELSE [k \in ConfigKeys |-> IF k \in DOMAIN environ THEN environ[k] ELSE Fallback(k)]

\* load_config (lines 63-81), called at lines 23-27
load_config ==
    /\ pc = "load_config"
    /\ \E dict_config \in Mappings("dict") :
         /\ config' = load_config_value(dict_config, host.file, host.environ)
         /\ op' = [name |-> "load_config", args |-> <<dict_config>>,
                   trace |-> <<>>, ret |-> None]
    /\ pc' = "configured"
    /\ UNCHANGED <<fields, hs, lifevars, host>>

ConfigInit ==
    /\ pc = "load_config"
    /\ passphrase_ok = TRUE
    /\ FINGERPRINT = None
    /\ authenticated = FALSE
    /\ token = NoneText
    /\ USER_ID = None
    /\ pgp_message = NoneText
    /\ nonce = NoneRec
    /\ headers = NoHeaders
    /\ keyring = {}
    /\ hs = <<>>
    /\ op = NoOp
    /\ inst = <<>>
    /\ fs = {}
    /\ config = NoneRec
    /\ host \in Hosts

ConfigNext == load_config

ConfigSpec == ConfigInit /\ [][ConfigNext]_vars

\* C11: load_config takes the explicit mapping whenever it is not empty,
\* otherwise the JSON file whenever it exists, otherwise the environment
\* variables with their fallbacks; no field of self.config comes from a source
\* of lower precedence than the one selected.
SourcesOf(m) == { m[k][1] : k \in DOMAIN m }

C11_ConfigPrecedence ==
    op.name = "load_config" =>
        LET dict_config == op.args[1]
        IN  /\ DOMAIN dict_config # {} =>
                 /\ config = dict_config
                 /\ SourcesOf(config) = {"dict"}
            /\ (DOMAIN dict_config = {} /\ host.file.exists) =>
                 /\ config = host.file.json
                 /\ SourcesOf(config) \subseteq {"file"}
            /\ (DOMAIN dict_config = {} /\ ~host.file.exists) =>
                 /\ DOMAIN config = ConfigKeys
                 /\ \A k \in ConfigKeys :
                      config[k] = IF k \in DOMAIN host.environ
                                  THEN <<"env", k>> ELSE Fallback(k)

\* a partial explicit mapping wins over a complete file and a complete
\* environment, and its missing keys stay missing
C11_Witness ==
    /\ op.name = "load_config"
    /\ DOMAIN op.args[1] = {"base_url"}
    /\ host.file.exists /\ DOMAIN host.file.json = ConfigKeys
    /\ DOMAIN host.environ = ConfigKeys
    /\ DOMAIN config = {"base_url"} /\ config["base_url"] = <<"dict", "base_url">>

\* ----------------------------------------------- claims on the group flow
TwoPhase == {"put_user_on_group", "update_user_to_group_admin"}

\* the dry-run and commit exchanges of the operation last run
DryRuns ==
    { i \in DOMAIN op.trace : /\ op.trace[i].kind = "request"
                              /\ op.trace[i].req.method = "PUT"
                              /\ op.trace[i].req.url = DryRunUrl(op.args[1]) }
Commits ==
    { i \in DOMAIN op.trace : /\ op.trace[i].kind = "request"
                              /\ op.trace[i].req.method = "PUT"
                              /\ op.trace[i].req.url = GroupUrl(op.args[1]) }

\* C12: put_user_on_group and update_user_to_group_admin do not raise on a
\* non-200 status: after a non-200 dry-run they return the dry-run response,
\* after a 200 dry-run the response of the commit PUT, whatever its status.
C12_RawResponseReturned ==
    (op.name \in TwoPhase /\ DryRuns # {}) =>
        \A d \in DryRuns :
            /\ "raised" \in DOMAIN op => ~op.raised
            /\ op.trace[d].resp.status_code # 200 =>
                 op.ret = [url |-> op.trace[d].req.url,
                           status_code |-> op.trace[d].resp.status_code]
            /\ op.trace[d].resp.status_code = 200 =>
                 /\ Commits # {}
                 /\ \A c \in Commits :
                      op.ret = [url |-> op.trace[c].req.url,
                                status_code |-> op.trace[c].resp.status_code]

\* a 200 dry-run followed by a 403 commit: the commit response is returned
C12_Witness ==
    /\ op.name = "update_user_to_group_admin"
    /\ \E d \in DryRuns : op.trace[d].resp.status_code = 200
    /\ \E c \in Commits : op.trace[c].resp.status_code = 403
    /\ op.ret.status_code = 403 /\ op.ret.url = GroupUrl(op.args[1])

\* C13: the liveness check changes no session state: whatever GET / answers,
\* check_login leaves authenticated, token, USER_ID and the session headers
\* as they were.
C13_LivenessCheckKeepsSession ==
    [][pc = "check_login" =>
          /\ authenticated' = authenticated
          /\ token' = token
          /\ USER_ID' = USER_ID
          /\ headers' = headers]_vars

\* authenticated, and still so after GET / answered 403
C13_Witness ==
    /\ pc = "ready"
    /\ authenticated
    /\ Len(hs) = 4
    /\ hs[4].req.url = RootUrl /\ hs[4].resp.status_code = 403
    /\ \A i \in Stage2Posts : hs[i].resp.code = 200
    /\ HasCsrf(headers, token)

\* C14: the commit PUT of put_user_on_group resubmits the membership change
\* of the dry-run: same group id, same user_id and is_admin in groups_users;
\* the secrets list is the only addition.
C14_CommitResubmitsMembership ==
    op.name = "put_user_on_group" =>
        \A c \in Commits : \A d \in DryRuns :
            LET sent == op.trace[c].req.body
                tried == op.trace[d].req.body
            IN  /\ d < c
                /\ DOMAIN sent = DOMAIN tried \cup {"secrets"}
                /\ "secrets" \notin DOMAIN tried
                /\ sent.id = tried.id /\ tried.id = op.args[1]
                /\ sent.groups_users = tried.groups_users
                /\ Len(tried.groups_users) = 1
                /\ tried.groups_users[1].user_id = op.args[2]
                /\ tried.groups_users[1].is_admin = op.args[3]

\* a new admin member with one secret to share
C14_Witness ==
    /\ op.name = "put_user_on_group"
    /\ op.args[3] = TRUE
    /\ \E c \in Commits :
         /\ op.trace[c].req.body.groups_users[1].is_admin = TRUE
         /\ op.trace[c].req.body.groups_users[1].user_id = "u2"
         /\ Len(op.trace[c].req.body.secrets) = 1

\* C15: update_user_to_group_admin is two-phase without secrets: the commit
\* PUT follows a dry-run PUT that answered 200, both carry the same body with
\* no secrets field, and the groups_users id of every PUT is the id of a
\* membership record of the target user in the target group.
Puts == { i \in DOMAIN op.trace : /\ op.trace[i].kind = "request"
                                  /\ op.trace[i].req.method = "PUT" }

MembershipsOf(users, user_id) ==
    UNION { { users[i].groups_users[k] : k \in DOMAIN users[i].groups_users } :
            i \in { n \in DOMAIN users : users[n].id = user_id } }

MembershipIds(users, user_id, group_id) ==
    { m.id : m \in { x \in MembershipsOf(users, user_id) : x.group_id = group_id } }

C15_AdminPromotionForwardsMembership ==
    op.name = "update_user_to_group_admin" =>
        /\ \A c \in Commits :
             \E d \in DryRuns : /\ d < c
                                /\ op.trace[d].resp.status_code = 200
                                /\ op.trace[d].req.body = op.trace[c].req.body
        /\ \A p \in Puts :
             /\ "secrets" \notin DOMAIN op.trace[p].req.body
             /\ op.trace[p].req.body.groups_users[1].id
                    \in MembershipIds(op.trace[1].resp.body, op.args[2], op.args[1])

\* C16: get_group_user_id returns None without raising when nothing matches:
\* when the user has no membership in the group, and when no listed user has
\* the id.
C16_GroupUserIdNoneWhenNoMatch ==
    op.name = "get_group_user_id" =>
        LET users == op.trace[1].resp.body
        IN  /\ ~op.raised
            /\ MembershipIds(users, op.args[2], op.args[1]) = {} => op.ret = None

\* C17: the handshake has no retry: login runs once, and the stage-1 POST,
\* the stage-2 POST, GET /users/me.json and GET / are each issued at most once
\* and only in that order, whatever the server answers.
RootGets == { i \in DOMAIN hs : hs[i].req.method = "GET" /\ hs[i].req.url = RootUrl }

HandshakeSteps == <<Stage1Posts, Stage2Posts, MeGets, RootGets>>

C17_HandshakeNoRetry ==
    /\ \A k \in DOMAIN HandshakeSteps : Cardinality(HandshakeSteps[k]) <= 1
    /\ \A k, l \in DOMAIN HandshakeSteps :
         k < l => \A i \in HandshakeSteps[k], j \in HandshakeSteps[l] : i < j
    /\ \A i \in DOMAIN hs : \E k \in DOMAIN HandshakeSteps : i \in HandshakeSteps[k]
    /\ LoginFinished => Cardinality(Stage1Posts) = 1

C17_Witness ==
    /\ LoginFinished
    /\ Stage1Failed
    /\ Stage2Failed
    /\ \E i \in RootGets : hs[i].resp.status_code # 200
    /\ Len(hs) = 4

\* C18: no decrypted secret outlives the re-encryption step: every operation
\* after login leaves authenticated, token, USER_ID, FINGERPRINT, pgp_message
\* and nonce as login left them, and none of them holds a secret's plaintext.
SessionFields == <<authenticated, token, USER_ID, FINGERPRINT, pgp_message, nonce>>

SecretPlaintexts == { d[3][3] : d \in SecretData }

NoPlaintextStored ==
    /\ USER_ID \notin SecretPlaintexts
    /\ FINGERPRINT \notin SecretPlaintexts
    /\ nonce # NoneRec => Str(nonce) \notin SecretPlaintexts
    /\ \A p \in SecretPlaintexts : token # T(<<p>>) /\ pgp_message # T(<<p>>)

C18_NoSecretOutlivesReencryption ==
    /\ [][LoginFinished => SessionFields' = SessionFields]_vars
    /\ [](LoginFinished => NoPlaintextStored)

\* a secret was decrypted and re-encrypted, and the fields are those of login
C18_Witness ==
    /\ pc = "returned"
    /\ op.name = "put_user_on_group"
    /\ \E i \in DOMAIN op.trace :
         /\ op.trace[i].kind = "encrypt"
         /\ op.trace[i].arg[1] \in SecretPlaintexts
    /\ authenticated
    /\ nonce # NoneRec /\ nonce.ok /\ Str(nonce) \notin SecretPlaintexts

\* C19: put_user_on_group issues its requests in the order dry-run PUT, then
\* only after a 200 one GET of the target user's public key, then the commit
\* PUT; the key is fetched once whatever the number of secrets, every
\* decryption and encryption lies between that GET and the commit PUT, and the
\* commit PUT is issued once.
KeyGets ==
    { i \in DOMAIN op.trace : /\ op.trace[i].kind = "request"
                              /\ op.trace[i].req.method = "GET"
                              /\ op.trace[i].req.url = UserUrl(op.args[2]) }
CryptoCalls ==
    { i \in DOMAIN op.trace : op.trace[i].kind \in {"decrypt", "encrypt"} }

C19_PutUserOnGroupOrder ==
    op.name = "put_user_on_group" =>
        /\ DryRuns = {1}
        /\ \A i \in DOMAIN op.trace : i \in DryRuns \cup KeyGets \cup Commits \cup CryptoCalls
        /\ IF op.trace[1].resp.status_code = 200
           THEN /\ KeyGets = {2}
                /\ Commits = {Len(op.trace)}
                /\ \A i \in CryptoCalls : 2 < i /\ i < Len(op.trace)
                /\ Cardinality({ i \in CryptoCalls : op.trace[i].kind = "encrypt" })
                     = Len(op.trace[1].resp.secrets)
           ELSE op.trace = <<op.trace[1]>>

\* two secrets re-encrypted with one fetch of the key
C19_Witness ==
    /\ op.name = "put_user_on_group"
    /\ Cardinality(CryptoCalls) = 4
    /\ KeyGets = {2}
    /\ Commits = {7}

====
